---- MODULE Spec2Model ----
(***************************************************************************)
(* Verification model of the netsquid teleportation / heralded-link        *)
(* examples:                                                               *)
(*   src/utils/components.py  BSMDetector, HeraldedConnection              *)
(*   src/util.py              BellMeasurementProtocol, CorrectionProtocol  *)
(*   src/link_layer.py        create_example_network, setup_protocol       *)
(*   src/main.py              scalable_network_setup, run_experiment       *)
(*                                                                         *)
(* Seven specifications share one set of variables:                        *)
(*   SpecDet   the midpoint detector driven by free qubit arrivals         *)
(*   SpecDead  the same detector constructed with a dead time              *)
(*   Spec      the teleportation protocols (Bell measurement, correction), *)
(*             every interleaving of their events                          *)
(*   SpecBell  the Bell-measurement side alone, under fair scheduling      *)
(*   SpecTimed the teleportation run with the times of its events          *)
(*   SpecLink  the link layer (heralding protocol + entanglement           *)
(*             generation state machine) around the detector, started and  *)
(*             stopped by the NetworkProtocol                              *)
(*   SpecConn  the construction of a HeraldedConnection                    *)
(*                                                                         *)
(* The netsquid library itself (QuantumDetector, ports, event kernel) is   *)
(* not part of the repository.  Its behaviour is taken from the            *)
(* description in spec.md section 4 and appears in the environment         *)
(* actions; the methods the repository overrides are operators translated  *)
(* line by line.                                                           *)
(***************************************************************************)
EXTENDS Integers, Sequences, FiniteSets, TLC

(***************************************************************************)
(* Bounds of the model.                                                    *)
(***************************************************************************)
\* latest time at which a qubit may reach the detector
MaxTime == 31
\* number of qubits that reach the detector in one run
MaxArrivals == 2

(***************************************************************************)
(* Program constants.                                                      *)
(***************************************************************************)
\* HeraldedConnection(..., time_window=20) -> BSMDetector(system_delay=20)
time_window == 20
\* BSMDetector.__init__ default, not overridden by HeraldedConnection
dead_time == 0

VARIABLES
    \* ---- simulation clock
    now,
    \* ---- BSMDetector
    qubits_per_port,    \* _qubits_per_port: input port name -> arrival times
    sender_ids,         \* _sender_ids
    is_triggered,       \* a measurement event is scheduled
    fire_time,          \* time of the scheduled measurement event
    busy_until,         \* end of the dead time of the last cycle
    detector,           \* the properties the detector was constructed with
    arrived,            \* qubits that reached the detector so far
    log,                \* one record per finished detector cycle
    last,               \* arrival times of the latest finished cycle
    \* ---- teleportation: EntanglingConnection and ClassicalConnection
    pairs,              \* entangled pairs the source has emitted
    qchannel,           \* qubit in flight to Alice (.a) and to Bob (.b)
    cchannel,           \* (m1, m2) messages in flight from Alice to Bob
    \* ---- BellMeasurementProtocol (Alice)
    a_pc,               \* the yield at which run() is suspended
    qubit_initialised,
    a_entanglement_ready,
    a_program,          \* program executing on Alice's memory
    a_stats,            \* counters of what Alice did
    a_round,            \* the statements of Alice's latest round, in order
    \* ---- CorrectionProtocol (Bob)
    b_pc,               \* the yield at which run() is suspended
    meas_results,
    b_entanglement_ready,
    b_executing,        \* instructions executing on Bob's memory
    b_issued,           \* corrections issued in the current round
    b_rounds,           \* one record per SUCCESS: bits used, corrections
    b_stats,            \* counters of what Bob did
    \* ---- DataCollector on Bob's SUCCESS
    success_events,     \* SUCCESS events the collector has not handled
    dataframe,          \* rows collected
    \* ---- the simulation engine under the teleportation run
    schedule,           \* the time, and the time of each event to come
    \* ---- link layer, per node "A" (Alice) and "B" (Bob)
    mhp_pc,             \* physical layer: "idle" or "awaiting" a reply
    q_inflight,         \* the node's qubit is on its way to the detector
    herald,             \* heralding messages on their way to the node
    mhp_signal,         \* local signal raised by the physical layer
    eg_state,           \* "IDLE", "ATTEMPTING" or "DONE"
    eg_stats,           \* counters of the generation layer
    \* ---- NetworkProtocol "SimpleLinkProtocol" over the link-layer protocols
    network_protocol,   \* "created", "running" or "stopped"; counts at stop
    is_running,         \* per child protocol: started and not stopped
    \* ---- HeraldedConnection
    length_to_a,        \* constructor argument, in units of half a km
    length_to_b,        \* constructor argument, in units of half a km
    channels            \* the delay of each channel and the detector window

detVars == <<now, qubits_per_port, sender_ids, is_triggered, fire_time,
             busy_until, detector, arrived, log, last>>

teleVars == <<pairs, qchannel, cchannel, a_pc, qubit_initialised,
              a_entanglement_ready, a_program, a_stats, a_round, b_pc, meas_results,
              b_entanglement_ready, b_executing, b_issued, b_rounds, b_stats,
              success_events, dataframe, schedule>>

composerVars == <<network_protocol, is_running>>

linkVars == <<mhp_pc, q_inflight, herald, mhp_signal, eg_state, eg_stats,
              composerVars>>

connVars == <<length_to_a, length_to_b, channels>>

vars == <<detVars, teleVars, linkVars, connVars>>

(***************************************************************************)
(* Port names are character tuples so that the slices port_name[3:] and    *)
(* port_name[4:] of the source are computed, not assumed.                  *)
(***************************************************************************)
qin0 == <<"q", "i", "n", "0">>
qin1 == <<"q", "i", "n", "1">>
cout0 == <<"c", "o", "u", "t", "0">>
cout1 == <<"c", "o", "u", "t", "1">>
\* dict iteration order of the detector's ports
InputPorts == <<qin0, qin1>>
OutputPorts == <<cout0, cout1>>
InputPortSet == {qin0, qin1}
OutputPortSet == {cout0, cout1}

\* python slice s[k:]
SliceFrom(s, k) == SubSeq(s, k + 1, Len(s))

\* outcome codes of the two-qubit measurement, passed through verbatim
OutcomeCodes == {"no_click", "single_click_A", "single_click_B", "double_click"}

Range(s) == {s[i] : i \in 1..Len(s)}

(***************************************************************************)
(* BSMDetector.preprocess_inputs: append the id of every input port that   *)
(* holds at least one qubit.                                               *)
(***************************************************************************)
RECURSIVE CollectSenders(_, _, _)
CollectSenders(ids, qpp, i) ==
    IF i > Len(InputPorts) THEN ids
    ELSE LET port_name == InputPorts[i]
         IN CollectSenders(IF Len(qpp[port_name]) > 0
                              THEN Append(ids, SliceFrom(port_name, 3))
                              ELSE ids,
                           qpp, i + 1)

preprocess_inputs_all(ids, qpp) ==
    \* a variant that registers every port, contributing or not
    ids \o <<SliceFrom(qin0, 3), SliceFrom(qin1, 3)>>

preprocess_inputs(ids, qpp) == CollectSenders(ids, qpp, 1)

(***************************************************************************)
(* BSMDetector.inform: one message per output port whose id is among the   *)
(* senders; an empty outcome list becomes ['TIMEOUT'] under header 'error'.*)
(***************************************************************************)
HeraldMessage_inverted(port_name, outcomes) ==
    \* a variant with the emptiness test inverted
    IF Len(outcomes) # 0
       THEN [port |-> port_name, items |-> <<"TIMEOUT">>, header |-> "error"]
       ELSE [port |-> port_name, items |-> outcomes, header |-> "photonoutcome"]

HeraldMessage_oneheader(port_name, outcomes) ==
    \* a variant that replaces the empty outcome but leaves the header alone
    IF Len(outcomes) = 0
       THEN [port |-> port_name, items |-> <<"TIMEOUT">>, header |-> "photonoutcome"]
       ELSE [port |-> port_name, items |-> outcomes, header |-> "photonoutcome"]

HeraldMessage(port_name, outcomes) ==
    IF Len(outcomes) = 0
       THEN [port |-> port_name, items |-> <<"TIMEOUT">>, header |-> "error"]
       ELSE [port |-> port_name, items |-> outcomes, header |-> "photonoutcome"]

RECURSIVE InformFrom(_, _, _)
InformFrom(port_outcomes, ids, i) ==
    IF i > Len(OutputPorts) THEN <<>>
    ELSE LET port_name == OutputPorts[i]
             rest == InformFrom(port_outcomes, ids, i + 1)
         IN IF SliceFrom(port_name, 4) \in Range(ids)
               THEN <<HeraldMessage(port_name, port_outcomes[port_name])>> \o rest
               ELSE rest

inform_everyone(port_outcomes, ids) ==
    \* a variant without the sender filter (the base class behaviour)
    [i \in 1..Len(OutputPorts) |->
        HeraldMessage(OutputPorts[i], port_outcomes[OutputPorts[i]])]

inform(port_outcomes, ids) == InformFrom(port_outcomes, ids, 1)

(***************************************************************************)
(* BSMDetector.finish: clear the sender ids.                               *)
(***************************************************************************)
finish_keep(ids) == ids

finish(ids) == <<>>

(***************************************************************************)
(* The detector as an event-driven machine (QuantumDetector).              *)
(***************************************************************************)
NoQubits == [p \in InputPortSet |-> <<>>]

TotalQubits(qpp) == Len(qpp[qin0]) + Len(qpp[qin1])

\* the input ports that delivered at least one qubit
Contributors(qpp) == {p \in InputPortSet : Len(qpp[p]) > 0}

\* the qubit times of a cycle
CycleTimes(qpp) == UNION {Range(qpp[p]) : p \in InputPortSet}

\* BSMDetector.__init__: the two timing properties handed on to the
\* QuantumDetector
BSMDetector(system_delay, dead) ==
    [system_delay |-> system_delay, dead_time |-> dead]

\* a detector that has seen no qubit yet
DetFresh ==
    /\ now = 0
    /\ qubits_per_port = NoQubits
    /\ sender_ids = <<>>
    /\ is_triggered = FALSE
    /\ fire_time = 0
    /\ busy_until = 0
    /\ arrived = 0
    /\ log = <<>>
    /\ last = [qubits |-> NoQubits, first |-> 0, at |-> 0]

\* the detector of a HeraldedConnection: BSMDetector("Midpoint",
\* system_delay=time_window), the dead time left at its default
InitDet ==
    /\ DetFresh
    /\ detector = BSMDetector(time_window, dead_time)

\* A qubit reaches input port p at time t.  Events are handled in time
\* order, so t is not before the clock and, while a measurement event is
\* pending, not after it.  The first qubit of a cycle schedules the
\* measurement system_delay later.  A qubit in the dead time is dropped.
WindowEnd_default(t) ==
    \* a variant in which time_window is not handed to the detector, whose
    \* system_delay then stays at its default 0
    t + 0

WindowEnd(t) == t + time_window

\* the detector takes no qubit at time t, its dead time lasting until
\* `until`
Blind_never(t, until) ==
    \* a variant without dead time
    FALSE

Blind(t, until) == t < until

DetArrive(p, t) ==
    /\ t >= now
    /\ is_triggered => t <= fire_time
    /\ now' = t
    /\ arrived' = arrived + 1
    /\ IF Blind(t, busy_until)
          THEN UNCHANGED <<qubits_per_port, is_triggered, fire_time>>
          ELSE /\ qubits_per_port' =
                     [qubits_per_port EXCEPT ![p] = Append(@, t)]
               /\ is_triggered' = TRUE
               /\ fire_time' = IF is_triggered THEN fire_time ELSE WindowEnd(t)
    \* bookkeeping: the qubit came at the very time the latest cycle was
    \* measured, after the measurement, and so is not part of that cycle
    /\ log' = IF Len(log) > 0 /\ t = last.at
                 THEN [log EXCEPT ![Len(log)].left_out = TRUE]
                 ELSE log
    /\ UNCHANGED <<sender_ids, busy_until, detector, last>>

\* The measurement event: preprocess_inputs, the two-qubit measurement
\* (an outcome code when exactly two qubits are present, nothing
\* otherwise), inform, finish.
DetMeasure ==
    /\ is_triggered
    /\ \E code \in OutcomeCodes :
         LET ids == preprocess_inputs(sender_ids, qubits_per_port)
             outcomes == IF TotalQubits(qubits_per_port) = 2
                            THEN <<code>> ELSE <<>>
             port_outcomes == [p \in OutputPortSet |-> outcomes]
             msgs == inform(port_outcomes, ids)
         IN /\ log' = Append(log, [senders |-> Contributors(qubits_per_port),
                                   count   |-> TotalQubits(qubits_per_port),
                                   before  |-> sender_ids,
                                   msgs    |-> msgs,
                                   \* bookkeeping: a qubit of this cycle
                                   \* came at the very time of this event
                                   joined  |-> fire_time \in
                                                 CycleTimes(qubits_per_port),
                                   left_out |-> FALSE])
            /\ sender_ids' = finish(ids)
    /\ last' = [qubits |-> qubits_per_port,
                first  |-> fire_time - time_window,
                at     |-> fire_time]
    /\ now' = fire_time
    /\ qubits_per_port' = NoQubits
    /\ is_triggered' = FALSE
    /\ busy_until' = fire_time + detector.dead_time
    /\ UNCHANGED <<fire_time, detector, arrived>>


(***************************************************************************)
(* Teleportation: BellMeasurementProtocol on Alice, CorrectionProtocol on  *)
(* Bob, the entangling source between them and the classical channel from  *)
(* Alice to Bob.  The memories are the substrate: a program or instruction *)
(* that was issued completes at some later moment.                         *)
(***************************************************************************)
\* number of entangled pairs the source emits in one run
MaxPairs == 3

Bit == {0, 1}
None == "None"

\* no time is kept: the events of the run happen in any order
NoSchedule == [distance |-> 0, time |-> 0, emit |-> -1, qubit |-> -1,
               a_done |-> -1, b_done |-> -1, messages |-> <<>>]

\* nothing emitted, nothing in a channel, nothing collected
ChannelsEmpty ==
    /\ pairs = 0
    /\ qchannel = [a |-> FALSE, b |-> FALSE]
    /\ cchannel = <<>>
    /\ success_events = 0
    /\ dataframe = 0

\* BellMeasurementProtocol.run up to its first yield
BellStart ==
    /\ a_pc = "wait"
    /\ qubit_initialised = FALSE
    /\ a_entanglement_ready = FALSE
    /\ a_program = "init"
    /\ a_stats = [success |-> 0, measures |-> 0, sent |-> 0,
                  init_wakes |-> 0, qubit_wakes |-> 0,
                  waits |-> 1, unheard |-> 0,
                  init_at_reset |-> 0, qubits_at_reset |-> 0,
                  \* qubits that came during the latest measurement,
                  \* programs executing on the memory, results measured
                  missed |-> 0, outstanding |-> 1, results |-> <<>>]
    /\ a_round = <<>>

\* CorrectionProtocol.run up to its first yield
CorrectionStarted ==
    /\ b_pc = "wait"
    /\ meas_results = None
    /\ b_entanglement_ready = FALSE
    /\ b_executing = <<>>
    /\ b_issued = <<>>
    /\ b_rounds = <<>>
    /\ b_stats = [success |-> 0, rendezvous |-> 0, reads |-> 0,
                  qubit_wakes |-> 0, waits |-> 1, unheard |-> 0,
                  reads_at_reset |-> 0, qubits_at_reset |-> 0,
                  \* what came during the latest corrections
                  missed_qubits |-> 0, missed_messages |-> 0]

TeleStart ==
    /\ ChannelsEmpty
    /\ BellStart
    /\ CorrectionStarted

\* the same variables when the protocols are not running
BellIdle ==
    /\ a_pc = "stopped"
    /\ qubit_initialised = FALSE
    /\ a_entanglement_ready = FALSE
    /\ a_program = "none"
    /\ a_stats = [success |-> 0, measures |-> 0, sent |-> 0,
                  init_wakes |-> 0, qubit_wakes |-> 0,
                  waits |-> 0, unheard |-> 0,
                  init_at_reset |-> 0, qubits_at_reset |-> 0,
                  missed |-> 0, outstanding |-> 0, results |-> <<>>]
    /\ a_round = <<>>

CorrectionIdle ==
    /\ b_pc = "stopped"
    /\ meas_results = None
    /\ b_entanglement_ready = FALSE
    /\ b_executing = <<>>
    /\ b_issued = <<>>
    /\ b_rounds = <<>>
    /\ b_stats = [success |-> 0, rendezvous |-> 0, reads |-> 0,
                  qubit_wakes |-> 0, waits |-> 0, unheard |-> 0,
                  reads_at_reset |-> 0, qubits_at_reset |-> 0,
                  missed_qubits |-> 0, missed_messages |-> 0]

TeleIdle ==
    /\ ChannelsEmpty
    /\ BellIdle
    /\ CorrectionIdle
    /\ schedule = NoSchedule

\* the link layer when its protocols are not running
Nodes == {"A", "B"}

\* no local signal raised
NoSignal == [port |-> <<>>, items |-> <<>>, header |-> "none"]

\* the children of the NetworkProtocol: on each node the generation
\* protocol (egp) and, below it, its physical layer (mhp)
NoneRunning == [egp |-> [n \in Nodes |-> FALSE], mhp |-> [n \in Nodes |-> FALSE]]
AllRunning == [egp |-> [n \in Nodes |-> TRUE], mhp |-> [n \in Nodes |-> TRUE]]

LinkIdle ==
    /\ network_protocol = [state |-> "created",
                           at_stop |-> [n \in Nodes |-> 0]]
    /\ is_running = NoneRunning
    /\ mhp_pc = [n \in Nodes |-> "stopped"]
    /\ q_inflight = [n \in Nodes |-> FALSE]
    /\ herald = [n \in Nodes |-> <<>>]
    /\ mhp_signal = [n \in Nodes |-> NoSignal]
    /\ eg_state = [n \in Nodes |-> "IDLE"]
    /\ eg_stats = [n \in Nodes |->
                      [attempts |-> 0, replies |-> 0, timeouts |-> 0,
                       double |-> 0, success |-> 0, slot |-> None]]

(***************************************************************************)
(* HeraldedConnection.__init__: the channel delays.  Lengths are counted   *)
(* in half kilometres, so that distance / 2 of create_example_network is   *)
(* a whole number; for the lengths of the model (up to 6 km) the floating  *)
(* point value of length / 200000 * 1e9 is the exact quotient.             *)
(***************************************************************************)
\* longest side of a connection, in half kilometres
MaxHalfKm == 11

\* the literal 200000 (km/s) of delay_a and delay_b
fibre_speed == 200000
\* the literal 1e9 (ns per s) of delay_a and delay_b
ns_per_s == 1000000000
\* create_example_network: distance = 2  # in km
distance == 2

DelayNs_vacuum(half_km) ==
    \* a variant that divides by the speed of light in vacuum
    (half_km * (ns_per_s \div 300000)) \div 2

\* length / 200000 * 1e9 for a length of half_km / 2 kilometres
DelayNs(half_km) == (half_km * (ns_per_s \div fibre_speed)) \div 2

\* no connection built
NoChannels == [ChannelA |-> -1, ChannelB |-> -1,
               QChannelA |-> -1, QChannelB |-> -1, system_delay |-> -1]

HeraldedConnection(la, lb, window) ==
    LET delay_a == DelayNs(la)
        delay_b == DelayNs(lb)
    IN [ChannelA |-> delay_a, ChannelB |-> delay_b,
        QChannelA |-> delay_a, QChannelB |-> delay_b,
        system_delay |-> window]

\* no HeraldedConnection in the network
ConnNone ==
    /\ length_to_a = 0
    /\ length_to_b = 0
    /\ channels = NoChannels

\* create_example_network: both sides distance / 2 km away, which is
\* distance half kilometres, and time_window = 20
ConnExample ==
    /\ length_to_a = distance
    /\ length_to_b = distance
    /\ channels = HeraldedConnection(length_to_a, length_to_b, time_window)

Init ==
    /\ InitDet
    /\ TeleStart
    /\ schedule = NoSchedule
    /\ LinkIdle
    /\ ConnNone

\* Both qubits of a pair travel length / 2 and arrive at the same time, and
\* the collector handles a SUCCESS event at the time it is emitted: other
\* events wait until both have happened.
Quiet ==
    /\ qchannel.a = qchannel.b
    /\ success_events = 0

aliceVars == <<a_pc, qubit_initialised, a_entanglement_ready, a_program, a_stats,
               a_round>>
bobVars == <<b_pc, meas_results, b_entanglement_ready, b_executing, b_issued,
             b_rounds, b_stats>>

\* EntanglingConnection: the source emits a pair, one qubit to each side
SourceEmit ==
    /\ Quiet
    /\ pairs < MaxPairs
    /\ ~qchannel.a
    /\ pairs' = pairs + 1
    /\ qchannel' = [a |-> TRUE, b |-> TRUE]
    /\ UNCHANGED <<cchannel, aliceVars, bobVars, success_events, dataframe>>
    /\ UNCHANGED <<detVars, linkVars, connVars>>

(***************************************************************************)
(* BellMeasurementProtocol.run                                             *)
(***************************************************************************)
\* lines 241-243: the flags after a round
BellReset_keep(init, ent) == <<init, ent>>

BellReset(init, ent) == <<FALSE, FALSE>>

\* An event resumes run() only if run() is suspended on the expression the
\* event belongs to; each pass of the loop builds a new OR expression, and
\* an event that fires while run() is elsewhere resolves nothing.
Listening_always(pc) ==
    \* a variant in which an expression of an earlier pass stays armed
    TRUE

Listening(pc) == pc = "wait"

\* lines 230-236 after a wake-up of the OR expression: the flag of the term
\* that fired is set; with both flags set the measurement program starts
BothReady_either(init, ent) ==
    \* a variant with "or" in place of "and" in line 234
    init \/ ent

BothReady(init, ent) == init /\ ent

AliceWake(first_term) ==
    LET init == IF first_term THEN TRUE ELSE qubit_initialised
        ent == IF first_term THEN a_entanglement_ready ELSE TRUE
    IN /\ qubit_initialised' = init
       /\ a_entanglement_ready' = ent
       /\ a_round' = a_round
       /\ IF BothReady(init, ent)
             THEN /\ a_program' = "measure"
                  /\ a_pc' = "measure"
                  /\ a_stats' = [a_stats EXCEPT
                         !.measures = @ + 1,
                         !.init_wakes = @ + (IF first_term THEN 1 ELSE 0),
                         !.qubit_wakes = @ + (IF first_term THEN 0 ELSE 1),
                         !.missed = 0,
                         \* the program that completed, the one issued
                         !.outstanding = @ - (IF first_term THEN 1 ELSE 0) + 1]
             ELSE /\ a_program' = IF first_term THEN "none" ELSE a_program
                  /\ a_pc' = "wait"
                  /\ a_stats' = [a_stats EXCEPT
                         !.init_wakes = @ + (IF first_term THEN 1 ELSE 0),
                         !.qubit_wakes = @ + (IF first_term THEN 0 ELSE 1),
                         !.waits = @ + 1,
                         !.outstanding = @ - (IF first_term THEN 1 ELSE 0)]

\* the initialisation program completes: await_program fires
AliceInitDone ==
    /\ Quiet
    /\ a_program = "init"
    /\ Listening(a_pc)
    /\ AliceWake(TRUE)
    /\ UNCHANGED <<pairs, qchannel, cchannel, bobVars, success_events, dataframe>>
    /\ UNCHANGED <<detVars, linkVars, connVars>>

\* a qubit arrives at qin_charlie: await_port_input fires if Alice is
\* suspended on it, otherwise nobody listens
AliceQubitArrive ==
    /\ qchannel.a
    /\ success_events = 0
    /\ qchannel' = [qchannel EXCEPT !.a = FALSE]
    /\ IF Listening(a_pc)
          THEN AliceWake(FALSE)
          ELSE /\ a_stats' = [a_stats EXCEPT !.unheard = @ + 1,
                                              !.missed = @ + 1]
               /\ UNCHANGED <<a_pc, qubit_initialised, a_entanglement_ready,
                              a_program, a_round>>
    /\ UNCHANGED <<pairs, cchannel, bobVars, success_events, dataframe>>
    /\ UNCHANGED <<detVars, linkVars, connVars>>

\* The statements of lines 239-243 on the protocol's state s; each leaves
\* in s.steps what it did and the state it left.
Done(s, op) ==
    [s EXCEPT !.steps = Append(@, [op |-> op, sent |-> s.sent,
                                   success |-> s.success, init |-> s.init,
                                   ent |-> s.ent, program |-> s.program])]

\* line 239: self.node.ports["cout_bob"].tx_output((m1, m2))
BellTx(s, m) ==
    Done([s EXCEPT !.cchannel = Append(@, m), !.sent = @ + 1], "tx_output")

\* line 240: self.send_signal(Signals.SUCCESS)
BellSignal(s) ==
    Done([s EXCEPT !.success = @ + 1], "send_signal")

\* lines 241-242
BellResetFlags(s) ==
    Done([s EXCEPT !.init = BellReset(s.init, s.ent)[1],
                   !.ent = BellReset(s.init, s.ent)[2]], "reset")

BellInit_skip(s) ==
    \* a variant that does not initialise a qubit for the next round
    Done(s, "execute_program")

\* line 243: self.node.qmemory.execute_program(qubit_init_program)
BellInit(s) ==
    Done([s EXCEPT !.program = "init"], "execute_program")

BellRound_signalfirst(s, m) ==
    \* a variant that emits SUCCESS before the message is sent
    BellInit(BellResetFlags(BellTx(BellSignal(s), m)))

\* lines 239-243 in the order of the source
BellRound(s, m) ==
    BellInit(BellResetFlags(BellSignal(BellTx(s, m))))

\* the measurement program completes (line 236 resumes): lines 237-243
AliceMeasureDone ==
    /\ Quiet
    /\ a_program = "measure"
    /\ a_pc = "measure"
    /\ \E m1 \in Bit, m2 \in Bit :
          LET s == BellRound([cchannel |-> cchannel,
                              sent |-> a_stats.sent,
                              success |-> a_stats.success,
                              init |-> qubit_initialised,
                              ent |-> a_entanglement_ready,
                              program |-> "none",
                              steps |-> <<>>], <<m1, m2>>)
          IN /\ cchannel' = s.cchannel
             /\ a_stats' = [a_stats EXCEPT
                    !.sent = s.sent, !.success = s.success,
                    !.waits = @ + 1,
                    !.init_at_reset = a_stats.init_wakes,
                    !.qubits_at_reset = a_stats.qubit_wakes,
                    !.results = Append(@, <<m1, m2>>),
                    \* the measurement completed, line 243 issued
                    !.outstanding = @ - 1 + (IF s.program = "none" THEN 0 ELSE 1)]
             /\ qubit_initialised' = s.init
             /\ a_entanglement_ready' = s.ent
             /\ a_program' = s.program
             /\ a_round' = s.steps
    /\ a_pc' = "wait"
    /\ UNCHANGED <<pairs, qchannel, bobVars, success_events, dataframe>>
    /\ UNCHANGED <<detVars, linkVars, connVars>>

(***************************************************************************)
(* CorrectionProtocol.run                                                  *)
(***************************************************************************)
\* line 271-273: SUCCESS with result 0, then the state is reset
CorrectionFinish ==
    [pc |-> "wait", issue |-> <<>>, success |-> TRUE]

\* lines 268-271: the code after the first correction
CorrectionAfterZ(m) ==
    IF m[2] = 1
       THEN [pc |-> "await270", issue |-> <<"X">>, success |-> FALSE]
       ELSE CorrectionFinish

CorrectionStart_xfirst(m) ==
    \* a variant that issues the bit flip where the phase flip belongs
    IF m[1] = 1
       THEN [pc |-> "await267", issue |-> <<"X">>, success |-> FALSE]
       ELSE CorrectionAfterZ(m)

CorrectionStart_noawait(m) ==
    \* a variant without the yield of line 267
    IF m[1] = 1
       THEN [CorrectionAfterZ(m) EXCEPT !.issue = <<"Z">> \o @]
       ELSE CorrectionAfterZ(m)

\* lines 265-271: the code from the point where both are present
CorrectionStart(m) ==
    IF m[1] = 1
       THEN [pc |-> "await267", issue |-> <<"Z">>, success |-> FALSE]
       ELSE CorrectionAfterZ(m)

\* lines 272-273
CorrectionReset_keep(m, ent) == <<m, ent>>

CorrectionReset(m, ent) == <<None, FALSE>>

\* the state after a step r of the round with results m and flag ent
BobApply(r, m, ent, issuedBefore, executingBefore) ==
    /\ b_pc' = r.pc
    /\ b_executing' = executingBefore \o r.issue
    /\ IF r.success
          THEN /\ b_rounds' = Append(b_rounds,
                      [bits |-> m, corrections |-> issuedBefore \o r.issue,
                       result |-> 0,
                       \* bookkeeping: what was executing at the SUCCESS,
                       \* messages read and qubits heard since the reset
                       executing |-> executingBefore \o r.issue,
                       reads |-> b_stats'.reads - b_stats.reads_at_reset,
                       qubits |-> b_stats'.qubit_wakes - b_stats.qubits_at_reset])
               /\ b_issued' = <<>>
               /\ meas_results' = CorrectionReset(m, ent)[1]
               /\ b_entanglement_ready' = CorrectionReset(m, ent)[2]
               /\ success_events' = success_events + 1
          ELSE /\ b_rounds' = b_rounds
               /\ b_issued' = issuedBefore \o r.issue
               /\ meas_results' = m
               /\ b_entanglement_ready' = ent
               /\ success_events' = success_events

\* line 264: the bits are there and the qubit is there
BothPresent_bitsonly(m, ent) ==
    \* a variant that forgets the entanglement flag
    m # None

BothPresent(m, ent) == m # None /\ ent

\* lines 259-263 after a wake-up of the OR expression
BobWake(m, ent, reads, wakes) ==
    IF BothPresent(m, ent)
       THEN /\ b_stats' = [b_stats EXCEPT
                   !.rendezvous = @ + 1,
                   !.success = @ + (IF CorrectionStart(m).success THEN 1 ELSE 0),
                   !.waits = @ + (IF CorrectionStart(m).success THEN 1 ELSE 0),
                   !.reads = @ + reads, !.qubit_wakes = @ + wakes,
                   !.missed_qubits = 0, !.missed_messages = 0,
                   !.reads_at_reset =
                       IF CorrectionStart(m).success
                          THEN b_stats.reads + reads ELSE @,
                   !.qubits_at_reset =
                       IF CorrectionStart(m).success
                          THEN b_stats.qubit_wakes + wakes ELSE @]
            /\ BobApply(CorrectionStart(m), m, ent, <<>>, b_executing)
       ELSE /\ b_pc' = "wait"
            /\ meas_results' = m
            /\ b_entanglement_ready' = ent
            /\ b_stats' = [b_stats EXCEPT
                   !.reads = @ + reads, !.qubit_wakes = @ + wakes,
                   !.waits = @ + 1]
            /\ UNCHANGED <<b_executing, b_issued, b_rounds, success_events>>

\* a message reaches cin_alice: if Bob is suspended on the port he reads
\* it (line 260), otherwise nobody listens
ClassicalDeliver ==
    /\ Quiet
    /\ cchannel # <<>>
    /\ cchannel' = Tail(cchannel)
    /\ IF Listening(b_pc)
          THEN BobWake(Head(cchannel), b_entanglement_ready, 1, 0)
          ELSE /\ b_stats' = [b_stats EXCEPT !.unheard = @ + 1,
                                              !.missed_messages = @ + 1]
               /\ UNCHANGED <<b_pc, meas_results, b_entanglement_ready,
                              b_executing, b_issued, b_rounds, success_events>>
    /\ UNCHANGED <<pairs, qchannel, aliceVars, dataframe>>
    /\ UNCHANGED <<detVars, linkVars, connVars>>

\* a qubit arrives at Bob's qin_charlie
BobQubitArrive ==
    /\ qchannel.b
    /\ success_events = 0
    /\ qchannel' = [qchannel EXCEPT !.b = FALSE]
    /\ IF Listening(b_pc)
          THEN BobWake(meas_results, TRUE, 0, 1)
          ELSE /\ b_stats' = [b_stats EXCEPT !.unheard = @ + 1,
                                              !.missed_qubits = @ + 1]
               /\ UNCHANGED <<b_pc, meas_results, b_entanglement_ready,
                              b_executing, b_issued, b_rounds, success_events>>
    /\ UNCHANGED <<pairs, cchannel, aliceVars, dataframe>>
    /\ UNCHANGED <<detVars, linkVars, connVars>>

\* the oldest executing instruction completes: await_program fires and
\* run() resumes after line 267 or after line 270
BobInstrDone ==
    /\ Quiet
    /\ b_executing # <<>>
    /\ LET r == IF b_pc = "await267" THEN CorrectionAfterZ(meas_results)
                ELSE CorrectionFinish
       IN IF b_pc \in {"await267", "await270"}
             THEN /\ b_stats' = [b_stats EXCEPT
                         !.success = @ + (IF r.success THEN 1 ELSE 0),
                         !.waits = @ + (IF r.success THEN 1 ELSE 0),
                         !.reads_at_reset =
                             IF r.success THEN b_stats.reads ELSE @,
                         !.qubits_at_reset =
                             IF r.success THEN b_stats.qubit_wakes ELSE @]
                  /\ BobApply(r, meas_results, b_entanglement_ready, b_issued,
                              Tail(b_executing))
             ELSE /\ b_executing' = Tail(b_executing)
                  /\ UNCHANGED <<b_pc, meas_results, b_entanglement_ready,
                                 b_issued, b_rounds, b_stats, success_events>>
    /\ UNCHANGED <<pairs, qchannel, cchannel, aliceVars, dataframe>>
    /\ UNCHANGED <<detVars, linkVars, connVars>>

\* main.py collect_fidelity_data: one row per SUCCESS event of Bob
CollectFidelity ==
    /\ success_events > 0
    /\ success_events' = success_events - 1
    /\ dataframe' = dataframe + 1
    /\ UNCHANGED <<pairs, qchannel, cchannel, aliceVars, bobVars>>
    /\ UNCHANGED <<detVars, linkVars, connVars>>

\* a step of the run when no time is kept
Untimed(step) == step /\ UNCHANGED schedule

Next ==
    \/ Untimed(SourceEmit)
    \/ Untimed(AliceInitDone)
    \/ Untimed(AliceQubitArrive)
    \/ Untimed(AliceMeasureDone)
    \/ Untimed(ClassicalDeliver)
    \/ Untimed(BobQubitArrive)
    \/ Untimed(BobInstrDone)
    \/ Untimed(CollectFidelity)

Spec == Init /\ [][Next]_vars

(***************************************************************************)
(* BellMeasurementProtocol alone under fair scheduling.  It reads nothing  *)
(* the CorrectionProtocol writes, so it is run here with the correction    *)
(* side not started: what reaches Bob is read by nobody.  The simulation   *)
(* engine handles the events of the run as long as there is one to handle: *)
(* a program that executes completes, what is in a channel arrives, and    *)
(* the source goes on emitting as long as the run lasts (MaxPairs).  Every *)
(* step adds to a counter, so no run can circle: a run that never stops    *)
(* while a step is possible takes every step that stays possible.          *)
(***************************************************************************)
InitBell ==
    /\ InitDet
    /\ ChannelsEmpty
    /\ BellStart
    /\ CorrectionIdle
    /\ schedule = NoSchedule
    /\ LinkIdle
    /\ ConnNone

NextBell ==
    \/ Untimed(SourceEmit)
    \/ Untimed(AliceInitDone)
    \/ Untimed(AliceQubitArrive)
    \/ Untimed(AliceMeasureDone)
    \/ Untimed(ClassicalDeliver)
    \/ Untimed(BobQubitArrive)

SpecBell == InitBell /\ [][NextBell]_vars /\ WF_vars(NextBell)

(***************************************************************************)
(* The same run with the times of the simulation.  Every event has its     *)
(* time: the source emits a pair every period, a qubit and a message take  *)
(* the delay of their channel, a program takes the durations of its        *)
(* instructions.  Events are handled in the order of their times; events   *)
(* of one time are handled one after the other, in any order.  Times are   *)
(* counted in ticks, Resolution ticks to the ns, and node_distance in      *)
(* units of the distance whose half a fibre delays by one tick.            *)
(***************************************************************************)
\* ticks per ns
Resolution == 8
\* largest node_distance of a timed run, in ticks of half-way delay
MaxDistance == 40

\* create_processor: the duration of each physical instruction, in ns
INSTR_INIT == 3
INSTR_H == 1
INSTR_X == 1
INSTR_S == 1
INSTR_CNOT == 4
INSTR_MEASURE == 7
INSTR_Z_slow ==
    \* a variant in which a correction outlasts two Bell measurements
    2 * (INSTR_CNOT + INSTR_H + INSTR_MEASURE + INSTR_MEASURE)
INSTR_Z == 1

\* InitStateProgram.program: INIT, H and S on one qubit
InitStateProgram == Resolution * (INSTR_INIT + INSTR_H + INSTR_S)
\* BellMeasurementProgram.program: CNOT, H and the two measurements
BellMeasurementProgram ==
    Resolution * (INSTR_CNOT + INSTR_H + INSTR_MEASURE + INSTR_MEASURE)
\* CorrectionProtocol: execute_instruction(INSTR_Z), execute_instruction(INSTR_X)
Duration(op) == Resolution * (IF op = "Z" THEN INSTR_Z ELSE INSTR_X)

\* the literal 4e4 of source_frequency = 4e4 / node_distance
source_rate == 40000

\* QuantumChannel(length=length / 2) under FibreDelayModel, whose speed is
\* that of delay_a and delay_b: this is the unit of node_distance
QubitDelay(node_distance) == node_distance

\* ClassicalChannel(length=length) under FibreDelayModel: the whole length
ClassicalDelay(node_distance) ==
    (node_distance * (ns_per_s \div fibre_speed))
        \div ((ns_per_s \div fibre_speed) \div 2)

\* scalable_network_setup: source_frequency = 4e4 / node_distance, and
\* EntanglingConnection: FixedDelayModel(delay=1e9 / source_frequency)
SourcePeriod(node_distance) ==
    (node_distance * (ns_per_s \div source_rate))
        \div ((ns_per_s \div fibre_speed) \div 2)

\* node_distance=4e-3 of the examples: its half delays by 10 ns
ExampleDistance == Resolution * (((4 * (ns_per_s \div fibre_speed)) \div 1000) \div 2)

Distances == 1..MaxDistance \cup {ExampleDistance}

\* run_experiment: both protocols are started at time 0, and Alice's first
\* initialisation program with them.  The source emits its first pair at
\* time 0 or one period later.
InitTimed ==
    /\ InitDet
    /\ TeleStart
    /\ LinkIdle
    /\ ConnNone
    /\ \E d \in Distances, first \in {0, 1} :
          schedule = [distance |-> d, time |-> 0,
                      emit |-> first * SourcePeriod(d), qubit |-> -1,
                      a_done |-> InitStateProgram, b_done |-> -1,
                      messages |-> <<>>]

\* the time of the next message to reach Bob
MessageDue ==
    IF schedule.messages = <<>> THEN -1 ELSE Head(schedule.messages)

\* the times of the events to come
Pending ==
    {schedule.emit, schedule.qubit, schedule.a_done, schedule.b_done,
     MessageDue} \ {-1}

Earliest(times) == CHOOSE t \in times : \A other \in times : t <= other

\* what a step of the protocols leaves scheduled: a pair that was emitted
\* puts the next emission and the arrival of its qubits on the schedule, a
\* program or instruction that was issued its completion, a message that
\* was sent its delivery
Reschedule ==
    LET t == schedule.time
        d == schedule.distance
    IN schedule' = [schedule EXCEPT
           !.emit = IF pairs' = pairs THEN @
                    ELSE IF pairs' < MaxPairs THEN t + SourcePeriod(d)
                    ELSE -1,
           !.qubit = IF ~(qchannel'.a \/ qchannel'.b) THEN -1
                     ELSE IF pairs' = pairs THEN @
                     ELSE t + QubitDelay(d),
           !.a_done = IF a_program' = "none" THEN -1
                      ELSE IF a_program' = a_program THEN @
                      ELSE IF a_program' = "init" THEN t + InitStateProgram
                      ELSE t + BellMeasurementProgram,
           !.b_done = IF b_executing' = <<>> THEN -1
                      ELSE IF b_executing' = b_executing THEN @
                      ELSE t + Duration(Head(b_executing')),
           !.messages = IF Len(cchannel') > Len(cchannel)
                           THEN Append(@, t + ClassicalDelay(d))
                        ELSE IF Len(cchannel') < Len(cchannel) THEN Tail(@)
                        ELSE @]

\* a step of the run at the time of its event
Timed(at, step) ==
    /\ at = schedule.time
    /\ step
    /\ Reschedule

\* the clock moves on to the next event once every event of the present
\* time is handled
Tick ==
    /\ success_events = 0
    /\ Pending # {}
    /\ schedule.time \notin Pending
    /\ schedule' = [schedule EXCEPT !.time = Earliest(Pending)]
    /\ UNCHANGED <<pairs, qchannel, cchannel, aliceVars, bobVars,
                   success_events, dataframe>>
    /\ UNCHANGED <<detVars, linkVars, connVars>>

TimedNext ==
    \/ Timed(schedule.emit, SourceEmit)
    \/ Timed(schedule.a_done, AliceInitDone)
    \/ Timed(schedule.qubit, AliceQubitArrive)
    \/ Timed(schedule.a_done, AliceMeasureDone)
    \/ Timed(MessageDue, ClassicalDeliver)
    \/ Timed(schedule.qubit, BobQubitArrive)
    \/ Timed(schedule.b_done, BobInstrDone)
    \/ Timed(schedule.time, CollectFidelity)
    \/ Tick

SpecTimed == InitTimed /\ [][TimedNext]_vars

(***************************************************************************)
(* The detector alone, driven by free arrivals; the teleportation          *)
(* protocols are not started.                                              *)
(***************************************************************************)
InitDetOnly ==
    /\ InitDet
    /\ TeleIdle
    /\ LinkIdle
    /\ ConnNone

Arrive(p, t) ==
    /\ arrived < MaxArrivals
    /\ DetArrive(p, t)
    /\ UNCHANGED <<teleVars, linkVars, connVars>>

Measure ==
    /\ DetMeasure
    /\ UNCHANGED <<teleVars, linkVars, connVars>>

NextDet ==
    \/ \E p \in InputPortSet, t \in 0..MaxTime : Arrive(p, t)
    \/ Measure

SpecDet == InitDetOnly /\ [][NextDet]_vars

(***************************************************************************)
(* The same detector constructed with a dead time: BSMDetector.__init__    *)
(* takes dead_time and hands it on.  No connection of the repository       *)
(* passes one, so this is the detector on its own.                         *)
(***************************************************************************)
\* longest dead time of the model
MaxDeadTime == 3

InitDead ==
    /\ DetFresh
    /\ \E dead \in 1..MaxDeadTime : detector = BSMDetector(time_window, dead)
    /\ TeleIdle
    /\ LinkIdle
    /\ ConnNone

SpecDead == InitDead /\ [][NextDet]_vars

(***************************************************************************)
(* Link layer (spec.md 4.4): on each node a physical layer that sends one  *)
(* qubit per attempt into the HeraldedConnection and waits for the         *)
(* heralding reply, and the entanglement-generation state machine          *)
(* IDLE -> ATTEMPTING -> DONE -> IDLE on top of it.  The detector in the    *)
(* middle is the one above.  Attempt periods 500 and 470 and the channel   *)
(* delay 5000 are all multiples of LinkTick, so qubits reach the detector  *)
(* on that grid.                                                           *)
(***************************************************************************)
\* attempts of one node in one run
MaxAttempts == 2
\* last grid slot in which a qubit may reach the detector
MaxSlot == 5

\* setup_protocol: MidpointHeraldingProtocol(nodes['Alice'], 500, ...)
alice_period == 500
\* setup_protocol: MidpointHeraldingProtocol(nodes['Bob'], 470, ...)
bob_period == 470

RECURSIVE Gcd(_, _)
Gcd(a, b) == IF b = 0 THEN a ELSE Gcd(b, a % b)

LinkTick == Gcd(alice_period, bob_period)

LinkTimes == {k * LinkTick : k \in 0..MaxSlot}

\* HeraldedConnection.__init__: side A is wired to qin0 / cout0, side B to
\* qin1 / cout1
QIn(n) == IF n = "A" THEN qin0 ELSE qin1
COut(n) == IF n = "A" THEN cout0 ELSE cout1

RECURSIVE SelectPort(_, _)
SelectPort(msgs, port) ==
    IF msgs = <<>> THEN <<>>
    ELSE IF Head(msgs).port = port
            THEN <<Head(msgs)>> \o SelectPort(Tail(msgs), port)
            ELSE SelectPort(Tail(msgs), port)

LinkStart ==
    /\ is_running = AllRunning
    /\ mhp_pc = [n \in Nodes |-> "idle"]
    /\ q_inflight = [n \in Nodes |-> FALSE]
    /\ herald = [n \in Nodes |-> <<>>]
    /\ mhp_signal = [n \in Nodes |-> NoSignal]
    /\ eg_state = [n \in Nodes |-> "IDLE"]
    /\ eg_stats = [n \in Nodes |->
                      [attempts |-> 0, replies |-> 0, timeouts |-> 0,
                       double |-> 0, success |-> 0, slot |-> None]]

\* run_simulation before protocol.start(): everything is built, nothing
\* runs
InitLink ==
    /\ InitDet
    /\ TeleIdle
    /\ LinkIdle
    /\ ConnExample

\* NetworkProtocol.start(): every child is started
NetworkStart ==
    /\ network_protocol.state = "created"
    /\ network_protocol' = [network_protocol EXCEPT !.state = "running"]
    /\ is_running' = AllRunning
    /\ mhp_pc' = [n \in Nodes |-> "idle"]
    /\ UNCHANGED <<q_inflight, herald, mhp_signal, eg_state, eg_stats>>
    /\ LinkStart'
    /\ UNCHANGED <<detVars, teleVars, connVars>>

\* the children still running after stop()
StopChildren_shallow(running) ==
    \* a variant that stops the direct children and not their physical layers
    [running EXCEPT !.egp = [n \in Nodes |-> FALSE]]

StopChildren(running) == NoneRunning

\* NetworkProtocol.stop(): every child is stopped; a stopped protocol has
\* no wait and no timer left.  Qubits and replies already in a channel
\* stay there, and a signal already raised stays raised.
NetworkStop ==
    /\ network_protocol.state = "running"
    /\ network_protocol' = [state |-> "stopped",
                            at_stop |-> [n \in Nodes |-> eg_stats[n].success]]
    /\ is_running' = StopChildren(is_running)
    /\ mhp_pc' = [n \in Nodes |->
                     IF is_running'.mhp[n] THEN mhp_pc[n] ELSE "stopped"]
    /\ UNCHANGED <<q_inflight, herald, mhp_signal, eg_state, eg_stats>>
    /\ UNCHANGED <<detVars, teleVars, connVars>>

\* the generation layer takes up the next slot
EGStart(n) ==
    /\ is_running.egp[n]
    /\ eg_state[n] = "IDLE"
    /\ eg_stats[n].attempts < MaxAttempts
    /\ eg_state' = [eg_state EXCEPT ![n] = "ATTEMPTING"]
    /\ UNCHANGED <<mhp_pc, q_inflight, herald, mhp_signal, eg_stats, is_running>>
    /\ UNCHANGED <<detVars, teleVars, network_protocol, connVars>>

\* the physical layer, on its period, emits a qubit into the link
MHPAttempt(n) ==
    /\ is_running.mhp[n]
    /\ eg_state[n] = "ATTEMPTING"
    /\ mhp_pc[n] = "idle"
    /\ mhp_signal[n] = NoSignal
    /\ eg_stats[n].attempts < MaxAttempts
    /\ mhp_pc' = [mhp_pc EXCEPT ![n] = "awaiting"]
    /\ q_inflight' = [q_inflight EXCEPT ![n] = TRUE]
    /\ eg_stats' = [eg_stats EXCEPT ![n].attempts = @ + 1]
    /\ UNCHANGED <<herald, mhp_signal, eg_state, is_running>>
    /\ UNCHANGED <<detVars, teleVars, network_protocol, connVars>>

\* the qubit of node n reaches the detector at time t
LinkArrive(n, t) ==
    /\ q_inflight[n]
    /\ DetArrive(QIn(n), t)
    /\ q_inflight' = [q_inflight EXCEPT ![n] = FALSE]
    /\ UNCHANGED <<mhp_pc, herald, mhp_signal, eg_state, eg_stats>>
    /\ UNCHANGED <<teleVars, composerVars, connVars>>

\* the detector's measurement event; its messages enter the classical
\* channels back to the nodes
LinkMeasure ==
    /\ DetMeasure
    /\ herald' = [n \in Nodes |->
                     herald[n] \o SelectPort(log'[Len(log')].msgs, COut(n))]
    /\ UNCHANGED <<mhp_pc, q_inflight, mhp_signal, eg_state, eg_stats>>
    /\ UNCHANGED <<teleVars, composerVars, connVars>>

\* the heralding reply reaches node n: the physical layer raises its local
\* signal with the reply and is free for the next period
HeraldDeliver(n) ==
    /\ herald[n] # <<>>
    /\ mhp_signal[n] = NoSignal
    /\ herald' = [herald EXCEPT ![n] = Tail(@)]
    /\ IF is_running.mhp[n]
          THEN /\ mhp_signal' = [mhp_signal EXCEPT ![n] = Head(herald[n])]
               /\ mhp_pc' = [mhp_pc EXCEPT ![n] = "idle"]
               /\ eg_stats' = [eg_stats EXCEPT
                      ![n].replies = @ + 1,
                      ![n].timeouts = @ + (IF Head(herald[n]).header = "error"
                                              THEN 1 ELSE 0),
                      ![n].double = @ + (IF Head(herald[n]).items = <<"double_click">>
                                            THEN 1 ELSE 0)]
          \* a reply that reaches a stopped physical layer is read by nobody
          ELSE UNCHANGED <<mhp_signal, mhp_pc, eg_stats>>
    /\ UNCHANGED <<q_inflight, eg_state, is_running>>
    /\ UNCHANGED <<detVars, teleVars, network_protocol, connVars>>

\* the outcome the generation layer accepts: a double click
Accepted_any(msg) ==
    \* a variant that takes every measured outcome for a success
    msg.header = "photonoutcome"

Accepted(msg) ==
    msg.header = "photonoutcome" /\ msg.items = <<"double_click">>

\* the generation layer handles the local signal: on the accepted outcome
\* it goes to DONE, records the slot and emits SUCCESS; otherwise it stays
\* in ATTEMPTING and the physical layer tries again
EGHandle(n) ==
    /\ is_running.egp[n]
    /\ mhp_signal[n] # NoSignal
    /\ eg_state[n] = "ATTEMPTING"
    /\ mhp_signal' = [mhp_signal EXCEPT ![n] = NoSignal]
    /\ IF Accepted(mhp_signal[n])
          THEN /\ eg_state' = [eg_state EXCEPT ![n] = "DONE"]
               /\ eg_stats' = [eg_stats EXCEPT
                      ![n].success = @ + 1,
                      ![n].slot = eg_stats[n].success]
          ELSE UNCHANGED <<eg_state, eg_stats>>
    /\ UNCHANGED <<mhp_pc, q_inflight, herald, is_running>>
    /\ UNCHANGED <<detVars, teleVars, network_protocol, connVars>>

\* after the SUCCESS the generation layer is IDLE for the next slot
EGReset(n) ==
    /\ is_running.egp[n]
    /\ eg_state[n] = "DONE"
    /\ eg_state' = [eg_state EXCEPT ![n] = "IDLE"]
    /\ UNCHANGED <<mhp_pc, q_inflight, herald, mhp_signal, eg_stats, is_running>>
    /\ UNCHANGED <<detVars, teleVars, network_protocol, connVars>>

NextLink ==
    \/ NetworkStart
    \/ NetworkStop
    \/ \E n \in Nodes : EGStart(n)
    \/ \E n \in Nodes : MHPAttempt(n)
    \/ \E n \in Nodes, t \in LinkTimes : LinkArrive(n, t)
    \/ LinkMeasure
    \/ \E n \in Nodes : HeraldDeliver(n)
    \/ \E n \in Nodes : EGHandle(n)
    \/ \E n \in Nodes : EGReset(n)

SpecLink == InitLink /\ [][NextLink]_vars

(***************************************************************************)
(* The construction of a HeraldedConnection alone, for every pair of       *)
(* lengths up to MaxHalfKm.                                                *)
(***************************************************************************)
InitConn ==
    /\ InitDet
    /\ TeleIdle
    /\ LinkIdle
    /\ length_to_a \in 0..MaxHalfKm
    /\ length_to_b \in 0..MaxHalfKm
    /\ channels = NoChannels

Construct ==
    /\ channels = NoChannels
    /\ channels' = HeraldedConnection(length_to_a, length_to_b, time_window)
    /\ UNCHANGED <<length_to_a, length_to_b>>
    /\ UNCHANGED <<detVars, teleVars, linkVars>>

NextConn == Construct

SpecConn == InitConn /\ [][NextConn]_vars

(***************************************************************************)
(* Properties of the link layer (specification SpecLink).                  *)
(***************************************************************************)
PendingDouble(n) ==
    IF mhp_signal[n].items = <<"double_click">>
       THEN 1 ELSE 0

\* C7: on each node the generation layer has emitted exactly one SUCCESS
\* per double-click reply it was handed, and none at all as long as every
\* reply was a timeout, whatever the number of retries.
C7_SuccessPerDoubleClick ==
    \A n \in Nodes :
        /\ eg_stats[n].success + PendingDouble(n) = eg_stats[n].double
        /\ eg_stats[n].timeouts = eg_stats[n].replies => eg_stats[n].success = 0
        /\ eg_state[n] = "DONE" => eg_stats[n].success > 0

\* C7 witness: node A was answered by a timeout, tried again, got a
\* double click and emitted its one SUCCESS.
C7_Witness ==
    /\ eg_stats["A"].timeouts = 1
    /\ eg_stats["A"].replies = 2
    /\ eg_stats["A"].double = 1
    /\ eg_stats["A"].success = 1
    /\ eg_state["A"] = "DONE"

\* the other case of C7: two attempts, two timeouts, no SUCCESS
C7_WitnessTimeouts ==
    /\ eg_stats["B"].timeouts = 2
    /\ eg_stats["B"].replies = 2
    /\ eg_stats["B"].success = 0

(***************************************************************************)
(* Properties of the detector (specification SpecDet).                     *)
(***************************************************************************)
\* input port and output port of the same side of the connection
SameSide(inp, outp) == SliceFrom(inp, 3) = SliceFrom(outp, 4)

OutputOf(inp) == CHOOSE outp \in OutputPortSet : SameSide(inp, outp)

MsgPorts(msgs) == {msgs[k].port : k \in 1..Len(msgs)}

TimeoutTo(inp) ==
    [port |-> OutputOf(inp), items |-> <<"TIMEOUT">>, header |-> "error"]

\* C1: in every detector cycle the number of heralding messages equals the
\* number of distinct input ports that delivered a qubit in that cycle, and
\* every message goes to the side of a port that delivered one.
C1_MessagesMatchContributors ==
    \A i \in 1..Len(log) :
        /\ Len(log[i].msgs) = Cardinality(log[i].senders)
        /\ MsgPorts(log[i].msgs) = {OutputOf(p) : p \in log[i].senders}

\* C1 witness: a cycle in which one port delivered two qubits and the other
\* none ends with a single message.
C1_Witness ==
    \E i \in 1..Len(log) :
        /\ log[i].count = 2
        /\ log[i].senders = {qin1}
        /\ Len(log[i].msgs) = 1

\* C2: a cycle that collected one qubit from each side computes one
\* outcome code and delivers that same code to both sides, one message
\* each, under header photonoutcome.
C2_BothArrivedSameCode ==
    \A i \in 1..Len(log) :
        (log[i].count = 2 /\ log[i].senders = InputPortSet) =>
            \E code \in OutcomeCodes :
                log[i].msgs =
                    <<[port |-> cout0, items |-> <<code>>, header |-> "photonoutcome"],
                      [port |-> cout1, items |-> <<code>>, header |-> "photonoutcome"]>>

\* C2 witness: both qubits of the latest cycle arrived inside the window,
\* at different times, and both sides got the double-click code.
C2_Witness ==
    /\ Len(log) > 0
    /\ Len(last.qubits[qin0]) = 1 /\ Len(last.qubits[qin1]) = 1
    /\ last.qubits[qin0][1] = last.first
    /\ last.qubits[qin1][1] > last.first
    /\ last.qubits[qin1][1] < last.first + time_window
    /\ Len(log[Len(log)].msgs) = 2
    /\ log[Len(log)].msgs[1].items = <<"double_click">>
    /\ log[Len(log)].msgs[2].items = <<"double_click">>

\* C3: a cycle in which exactly one qubit arrived ends, when the window
\* expires, with exactly one TIMEOUT message, sent to that qubit's side.
C3_SingleArrivalTimeout ==
    \A i \in 1..Len(log) :
        log[i].count = 1 =>
            \E p \in InputPortSet :
                /\ log[i].senders = {p}
                /\ log[i].msgs = <<TimeoutTo(p)>>

\* C3 witness: a finished cycle with a single qubit from side 1 and no
\* message to side 0.
C3_Witness ==
    \E i \in 1..Len(log) :
        /\ log[i].count = 1
        /\ log[i].senders = {qin1}
        /\ cout0 \notin MsgPorts(log[i].msgs)

\* C4: with the first arrival of a cycle at t0 and window w, every
\* arrival at t0 <= t < t0 + w belongs to that cycle (one qubit per side
\* gives BothArrived), and an arrival at t > t0 + w does not: the cycle of a
\* lone first qubit ends with TIMEOUT to its sender only.  With w = 20 and
\* A at t = 10: B at t = 25 is BothArrived, B at t = 31 is a timeout for A.
C4_WindowClassification ==
    Len(log) > 0 =>
        LET t0 == last.first
            r == log[Len(log)]
        IN  \* the cycle holds no arrival outside [t0, t0 + w] ...
            /\ \A t \in CycleTimes(last.qubits) : t0 <= t /\ t <= t0 + time_window
            /\ t0 \in CycleTimes(last.qubits)
            \* ... and no later qubit arrived before t0 + w
            /\ \A t \in CycleTimes(qubits_per_port) : t >= t0 + time_window
            /\ (Len(last.qubits[qin0]) = 1 /\ Len(last.qubits[qin1]) = 1) =>
                   /\ Len(r.msgs) = 2
                   /\ \A k \in 1..2 : r.msgs[k].header = "photonoutcome"
            /\ \A p \in InputPortSet :
                   (TotalQubits(last.qubits) = 1 /\ Len(last.qubits[p]) = 1) =>
                       r.msgs = <<TimeoutTo(p)>>
            /\ (last.qubits = [NoQubits EXCEPT ![qin0] = <<10>>, ![qin1] = <<25>>]) =>
                   (r.count = 2 /\ MsgPorts(r.msgs) = OutputPortSet)
            /\ (/\ last.qubits = [NoQubits EXCEPT ![qin0] = <<10>>]
                /\ qubits_per_port = [NoQubits EXCEPT ![qin1] = <<31>>]) =>
                   r.msgs = <<TimeoutTo(qin0)>>

\* C4 witness: A arrived at 10 and was classified alone (TIMEOUT to A
\* only) while B, arriving at 31, waits in the next cycle.
C4_Witness ==
    /\ Len(log) = 1
    /\ last.qubits = [NoQubits EXCEPT ![qin0] = <<10>>]
    /\ last.at = 30
    /\ qubits_per_port = [NoQubits EXCEPT ![qin1] = <<31>>]
    /\ log[1].msgs = <<TimeoutTo(qin0)>>

\* the other half of the C4 scenario: A at 10, B at 25, one cycle
C4_WitnessBoth ==
    /\ Len(log) = 1
    /\ last.qubits = [NoQubits EXCEPT ![qin0] = <<10>>, ![qin1] = <<25>>]
    /\ MsgPorts(log[1].msgs) = OutputPortSet

\* C9: the sender set is empty whenever the detector is between events, so
\* every cycle starts from an empty set, and a port that contributed to
\* one cycle but not to the next gets no message in the next.
C9_SenderSetCleared ==
    /\ sender_ids = <<>>
    /\ \A i \in 1..Len(log) : log[i].before = <<>>
    /\ \A i \in 1..(Len(log) - 1) :
          \A p \in log[i].senders \ log[i + 1].senders :
              OutputOf(p) \notin MsgPorts(log[i + 1].msgs)

\* C9 witness: side 0 contributed to one cycle, only side 1 to the next,
\* and the next cycle's single message went to side 1.
C9_Witness ==
    \E i \in 1..(Len(log) - 1) :
        /\ qin0 \in log[i].senders
        /\ log[i + 1].senders = {qin1}
        /\ MsgPorts(log[i + 1].msgs) = {cout1}

\* every message of every finished cycle
AllMessages == UNION {Range(log[i].msgs) : i \in 1..Len(log)}

\* C11: every heralding message the detector sent has header "error"
\* exactly when its outcome is TIMEOUT and header "photonoutcome" exactly
\* when it carries measurement outcome codes: TIMEOUT never travels under
\* "photonoutcome" and a code never under "error".
C11_HeaderMatchesOutcome ==
    \A msg \in AllMessages :
        /\ msg.header \in {"error", "photonoutcome"}
        /\ msg.header = "error" <=> msg.items = <<"TIMEOUT">>
        /\ msg.header = "photonoutcome" <=>
               (msg.items # <<>> /\ Range(msg.items) \subseteq OutcomeCodes)

\* C11 witness: one cycle ended in a timeout and sent "error", another
\* measured two qubits and sent a code under "photonoutcome".
C11_Witness ==
    /\ \E msg \in AllMessages :
          msg.header = "error" /\ msg.items = <<"TIMEOUT">>
    /\ \E msg \in AllMessages :
          msg.header = "photonoutcome" /\ msg.items = <<"single_click_A">>

\* C13: a second qubit that arrives exactly at the deadline of a cycle
\* (first arrival + system_delay) is classified by one fixed convention:
\* within a run it is either always measured with the first qubit
\* (BothArrived) or always left to the next cycle (SingleArrival),
\* whichever of the two same-time events is handled first.
C13_FixedConvention ==
    \/ \A i \in 1..Len(log) :
          ~(log[i].count = 2 /\ log[i].senders = InputPortSet /\ log[i].joined)
    \/ \A i \in 1..Len(log) : ~(log[i].count = 1 /\ log[i].left_out)

(***************************************************************************)
(* Properties of the teleportation protocols (specification Spec).         *)
(***************************************************************************)
\* the corrections the truth table prescribes for (m1, m2)
ExpectedCorrections(m) ==
    CASE m = <<0, 0>> -> <<>>
      [] m = <<0, 1>> -> <<"X">>
      [] m = <<1, 0>> -> <<"Z">>
      [] m = <<1, 1>> -> <<"Z", "X">>

IsPrefix(s, t) == Len(s) <= Len(t) /\ SubSeq(t, 1, Len(s)) = s

\* C5: for every (m1, m2) that CorrectionProtocol used in a round, the
\* corrections it issued in that round are, in order: none for (0,0), X for
\* (0,1), Z for (1,0), Z then X for (1,1); a round still in progress has
\* issued a prefix of that sequence.
C5_TruthTable ==
    /\ \A i \in 1..Len(b_rounds) :
          b_rounds[i].corrections = ExpectedCorrections(b_rounds[i].bits)
    /\ b_pc \in {"await267", "await270"} =>
          /\ b_issued # <<>>
          /\ IsPrefix(b_issued, ExpectedCorrections(meas_results))

\* C5 witness: three finished rounds used (1,1), (0,1) and (1,0), and the
\* (1,1) round issued Z then X.
C5_Witness ==
    /\ {b_rounds[i].bits : i \in 1..Len(b_rounds)} = {<<1, 1>>, <<0, 1>>, <<1, 0>>}
    /\ \E i \in 1..Len(b_rounds) :
          b_rounds[i].bits = <<1, 1>> /\ b_rounds[i].corrections = <<"Z", "X">>

\* the fourth row of the table
C5_WitnessNone ==
    \E i \in 1..Len(b_rounds) :
        b_rounds[i].bits = <<0, 0>> /\ b_rounds[i].corrections = <<>>

\* C6: at most one instruction executes on Bob's memory at any time; X is
\* executing alone while Bob waits at line 270 (Z has completed), and
\* nothing is executing when SUCCESS has been emitted and Bob waits again.
C6_CorrectionsSequential ==
    /\ Len(b_executing) <= 1
    /\ b_pc = "await267" => b_executing = <<"Z">>
    /\ b_pc = "await270" => b_executing = <<"X">>
    /\ b_pc = "wait" => b_executing = <<>>
    /\ success_events > 0 => b_executing = <<>>

\* C6 witness: in a (1,1) round X is executing after Z was issued and
\* completed.
C6_Witness ==
    /\ b_pc = "await270"
    /\ meas_results = <<1, 1>>
    /\ b_issued = <<"Z", "X">>
    /\ b_executing = <<"X">>

\* C8: Alice has emitted one SUCCESS (and sent one message) per completed
\* Bell measurement, Bob one SUCCESS per completed rendezvous, picked up as
\* one collector row each; after an emission the rendezvous state is reset,
\* so the SUCCESS count never exceeds the number of wake-ups of either kind.
C8_OneSuccessPerRound ==
    /\ a_stats.success + (IF a_pc = "measure" THEN 1 ELSE 0) = a_stats.measures
    /\ a_stats.sent = a_stats.success
    /\ a_stats.success <= a_stats.init_wakes
    /\ a_stats.success <= a_stats.qubit_wakes
    /\ a_pc = "wait" => ~(qubit_initialised /\ a_entanglement_ready)
    /\ b_stats.success + (IF b_pc = "wait" THEN 0 ELSE 1) = b_stats.rendezvous
    /\ b_stats.success <= b_stats.reads
    /\ b_stats.success <= b_stats.qubit_wakes
    /\ b_pc = "wait" => ~(meas_results # None /\ b_entanglement_ready)
    /\ Len(b_rounds) = b_stats.success
    /\ dataframe + success_events = b_stats.success

\* C8 witness: both protocols have completed two rounds and the second
\* SUCCESS of Bob has just been emitted with the state reset.
C8_Witness ==
    /\ a_stats.success >= 2
    /\ b_stats.success = 2
    /\ success_events = 1
    /\ meas_results = None
    /\ ~b_entanglement_ready

\* C14: a wait on an OR expression resolves at most once.  Every pass of
\* a protocol through its composite wait was resumed by exactly one event
\* (the first term or the second, never both, never twice), except the one
\* pass that is still suspended; an event that fires while the protocol is
\* not suspended on the expression resumes nothing.
C14_WaitResolvesOnce ==
    /\ a_stats.init_wakes + a_stats.qubit_wakes
          + (IF a_pc = "wait" THEN 1 ELSE 0) = a_stats.waits
    /\ b_stats.reads + b_stats.qubit_wakes
          + (IF b_pc = "wait" THEN 1 ELSE 0) = b_stats.waits
    /\ a_pc \in {"wait", "measure"}
    /\ b_pc \in {"wait", "await267", "await270"}

\* C14 witness: a qubit reached Alice while she was measuring and a qubit
\* or message reached Bob while he awaited a correction; neither resumed
\* an earlier wait, and both protocols went on to finish rounds.
C14_Witness ==
    /\ a_stats.unheard > 0
    /\ b_stats.unheard > 0
    /\ a_stats.waits > 3
    /\ b_stats.success > 0

\* C18: CorrectionProtocol issues a correction or emits SUCCESS only
\* when, since its last reset (or its start), it has read a classical
\* (m1, m2) message and heard an entangled qubit arrive; SUCCESS is emitted
\* when no correction of the round is executing any more, carries the slot
\* identifier 0, and is followed at once by the reset of both pieces of
\* state.
C18_CorrectionNeedsBoth ==
    /\ b_pc \in {"await267", "await270"} =>
          /\ b_stats.reads > b_stats.reads_at_reset
          /\ b_stats.qubit_wakes > b_stats.qubits_at_reset
          /\ meas_results \in Bit \X Bit
          /\ b_entanglement_ready
    /\ \A i \in 1..Len(b_rounds) :
          /\ b_rounds[i].reads >= 1
          /\ b_rounds[i].qubits >= 1
          /\ b_rounds[i].executing = <<>>
          /\ b_rounds[i].result = 0
    /\ success_events > 0 =>
          /\ b_pc = "wait"
          /\ meas_results = None
          /\ ~b_entanglement_ready
          /\ b_stats.reads_at_reset = b_stats.reads
          /\ b_stats.qubits_at_reset = b_stats.qubit_wakes

\* C18 witness: Bob heard a qubit and read (1, 1), issued Z and X, and has
\* just emitted SUCCESS with result 0 and reset his state.
C18_Witness ==
    /\ success_events = 1
    /\ Len(b_rounds) = 1
    /\ b_rounds[1].bits = <<1, 1>>
    /\ b_rounds[1].corrections = <<"Z", "X">>
    /\ b_rounds[1].result = 0
    /\ meas_results = None
    /\ ~b_entanglement_ready

\* C19: BellMeasurementProtocol runs the Bell measurement only when,
\* since the reset of the last round (or its start), the initialisation of
\* the local qubit has completed and an entangled qubit has arrived: never
\* with one of the two alone.
C19_MeasureNeedsBoth ==
    /\ a_pc = "measure" =>
          /\ a_stats.init_wakes > a_stats.init_at_reset
          /\ a_stats.qubit_wakes > a_stats.qubits_at_reset
          /\ qubit_initialised
          /\ a_entanglement_ready
    /\ a_program = "measure" <=> a_pc = "measure"
    /\ a_stats.measures <= a_stats.init_wakes
    /\ a_stats.measures <= a_stats.qubit_wakes

\* C19 witness: the second Bell measurement is running; in its round the
\* qubit had arrived and the initialisation completed after the reset of
\* the first round.
C19_Witness ==
    /\ a_pc = "measure"
    /\ a_stats.measures = 2
    /\ a_stats.success = 1
    /\ a_stats.init_at_reset >= 1
    /\ a_stats.qubits_at_reset >= 1

\* C20: in every round of BellMeasurementProtocol the steps after the
\* Bell measurement come in this order: (m1, m2) is sent on the classical
\* port, SUCCESS is emitted, both flags are reset, a new initialisation is
\* issued; so whenever the protocol is suspended it has sent as many
\* messages as it has emitted SUCCESS signals.
C20_RoundOrder ==
    /\ a_stats.sent = a_stats.success
    /\ a_stats.success > 0 <=> a_round # <<>>
    /\ a_round # <<>> =>
          /\ [i \in 1..Len(a_round) |-> a_round[i].op] =
                 <<"tx_output", "send_signal", "reset", "execute_program">>
          \* the message leaves after the measurement, before the SUCCESS
          /\ a_round[1].program = "none"
          /\ a_round[1].sent = a_round[1].success + 1
          \* SUCCESS is emitted with the flags still set
          /\ a_round[2].sent = a_round[2].success
          /\ a_round[2].init /\ a_round[2].ent
          \* the flags are cleared before the new initialisation starts
          /\ ~a_round[3].init /\ ~a_round[3].ent
          /\ a_round[3].program = "none"
          /\ a_round[4].program = "init"
          /\ a_round[4].sent = a_stats.sent
    /\ a_pc = "wait" /\ a_stats.success > 0 /\ a_stats.init_wakes = a_stats.init_at_reset
          => a_program = "init"

\* C20 witness: two rounds are complete, two messages were sent and two
\* SUCCESS signals emitted, and the third initialisation is running.
C20_Witness ==
    /\ a_pc = "wait"
    /\ a_stats.success = 2
    /\ a_stats.sent = 2
    /\ Len(a_round) = 4
    /\ a_program = "init"
    /\ ~qubit_initialised /\ ~a_entanglement_ready

(***************************************************************************)
(* Properties of the protocol composer (specification SpecLink).           *)
(***************************************************************************)
\* C16: start() of the NetworkProtocol starts every child and stop() stops
\* every child; once stopped, no child is suspended on a wait or a timer
\* and the number of SUCCESS signals of each node stays what it was at the
\* stop, whatever still arrives from the channels.
C16_StartStopPropagate ==
    /\ network_protocol.state = "created" => is_running = NoneRunning
    /\ network_protocol.state = "running" => is_running = AllRunning
    /\ network_protocol.state = "stopped" =>
          /\ is_running = NoneRunning
          /\ \A n \in Nodes :
                /\ mhp_pc[n] = "stopped"
                /\ eg_stats[n].success = network_protocol.at_stop[n]
                /\ eg_stats[n].replies <= eg_stats[n].attempts

\* C16 witness: the protocol was stopped while node A awaited its reply;
\* the double-click reply was then measured and delivered, and produced
\* neither a local signal nor a SUCCESS.
C16_Witness ==
    /\ network_protocol.state = "stopped"
    /\ eg_stats["A"].attempts = 1
    /\ eg_stats["A"].replies = 0
    /\ Len(log) = 1
    /\ [port |-> cout0, items |-> <<"double_click">>, header |-> "photonoutcome"]
          \in Range(log[1].msgs)
    /\ herald["A"] = <<>>
    /\ mhp_signal["A"] = NoSignal
    /\ eg_stats["A"].success = 0

(***************************************************************************)
(* Properties of the connection (specification SpecConn).                  *)
(***************************************************************************)
\* C17: every channel delay of a HeraldedConnection is 5000 ns per km of
\* its own side (2500 ns per half km): side A's quantum and classical
\* channel both follow length_to_a alone, side B's both length_to_b
\* alone, and 1 km gives 5000 ns.
C17_DelayFormula ==
    channels # NoChannels =>
        /\ channels.QChannelA = 2500 * length_to_a
        /\ channels.ChannelA = 2500 * length_to_a
        /\ channels.QChannelB = 2500 * length_to_b
        /\ channels.ChannelB = 2500 * length_to_b
        /\ length_to_a = 2 => channels.QChannelA = 5000
        /\ length_to_b = 2 => channels.ChannelB = 5000

\* C17 witness: a connection built with 1 km to side A and 3.5 km to side
\* B has 5000 ns on both of A's channels and 17500 ns on both of B's.
C17_Witness ==
    /\ length_to_a = 2
    /\ length_to_b = 7
    /\ channels.QChannelA = 5000 /\ channels.ChannelA = 5000
    /\ channels.QChannelB = 17500 /\ channels.ChannelB = 17500

(***************************************************************************)
(* Ownership of the node memories in the teleportation run (Spec).        *)
(***************************************************************************)
\* C27: on each node at most one operation issued by its protocol is
\* outstanding.  On Alice's memory the programs issued and not completed
\* are never more than one: the Bell measurement is executing exactly
\* while she awaits it, and whatever else executes while she is at her
\* wait is the initialisation, with its flag not yet set.  On Bob's memory
\* the instructions issued and not completed are never more than one.
C27_SingleOwnership ==
    /\ a_stats.outstanding \in {0, 1}
    /\ a_stats.outstanding = (IF a_program = "none" THEN 0 ELSE 1)
    /\ a_pc = "measure" <=> a_program = "measure"
    /\ a_program = "init" => ~qubit_initialised
    /\ Len(b_executing) <= 1
    /\ b_executing # <<>> => b_pc \in {"await267", "await270"}

\* C27 witness: Alice's measurement was issued by the arrival of the qubit
\* after the initialisation had completed, and Bob's bit flip is executing
\* after his phase flip completed.
C27_Witness ==
    /\ a_pc = "measure"
    /\ a_stats.outstanding = 1
    /\ a_stats.init_wakes = 2
    /\ a_stats.measures = 2
    /\ b_pc = "await270"
    /\ b_issued = <<"Z", "X">>
    /\ b_executing = <<"X">>

(***************************************************************************)
(* The state machine of the generation layer (SpecLink).                   *)
(***************************************************************************)
\* the steps the generation layer may take, a step that stays included
EGTransitions ==
    {<<"IDLE", "IDLE">>, <<"IDLE", "ATTEMPTING">>,
     <<"ATTEMPTING", "ATTEMPTING">>, <<"ATTEMPTING", "DONE">>,
     <<"DONE", "DONE">>, <<"DONE", "IDLE">>}

\* the reply handed to node n is a FAIL: a timeout or a measured outcome
\* other than the double click
IsFail(n) ==
    /\ mhp_signal[n] # NoSignal
    /\ mhp_signal[n].items # <<"double_click">>

\* C22: the generation layer only moves IDLE -> ATTEMPTING -> DONE -> IDLE.
\* It enters DONE only when the reply in its hands is a measured double
\* click; when it has handled a FAIL it is still ATTEMPTING and the physical
\* layer is free for its next period.  Whatever the number of failed
\* attempts before, a free physical layer under an ATTEMPTING generation
\* layer can attempt again at once (within the attempts of the run).
C22_Transitions ==
    /\ [][\A n \in Nodes :
            /\ <<eg_state[n], eg_state'[n]>> \in EGTransitions
            /\ (eg_state[n] = "ATTEMPTING" /\ eg_state'[n] = "DONE")
                  => /\ mhp_signal[n].header = "photonoutcome"
                     /\ mhp_signal[n].items = <<"double_click">>
            /\ (IsFail(n) /\ mhp_signal'[n] = NoSignal)
                  => /\ eg_state'[n] = "ATTEMPTING"
                     /\ mhp_pc'[n] = "idle"
                     /\ eg_stats'[n].success = eg_stats[n].success]_vars
    /\ [](\A n \in Nodes :
            (/\ is_running.mhp[n]
             /\ eg_state[n] = "ATTEMPTING"
             /\ mhp_pc[n] = "idle"
             /\ mhp_signal[n] = NoSignal
             /\ eg_stats[n].attempts < MaxAttempts) => ENABLED MHPAttempt(n))

\* C22 witness: node B was answered by a FAIL, stayed ATTEMPTING, tried
\* again, got its double click, went to DONE and is IDLE again.
C22_Witness ==
    /\ eg_stats["B"].attempts = 2
    /\ eg_stats["B"].replies = 2
    /\ eg_stats["B"].double = 1
    /\ eg_stats["B"].success = 1
    /\ eg_state["B"] = "IDLE"

(***************************************************************************)
(* The dead time of the detector (SpecDead).                               *)
(***************************************************************************)
\* a qubit reaches the detector in this step, after a cycle was classified
\* and before the dead time of that cycle has elapsed
InDeadTime ==
    /\ arrived' = arrived + 1
    /\ Len(log) > 0
    /\ ~is_triggered
    /\ now' < last.at + detector.dead_time

\* C23: a qubit that reaches the detector after a classification and before
\* dead_time has elapsed is not accepted: it is stored on no port, starts
\* no window (no measurement event is scheduled), and no cycle is
\* classified or message sent for it.
C23_DeadTimeDrops ==
    [][InDeadTime =>
          /\ qubits_per_port' = NoQubits
          /\ ~is_triggered'
          /\ fire_time' = fire_time
          /\ sender_ids' = sender_ids
          /\ Len(log') = Len(log)
          /\ \A i \in 1..Len(log) : log'[i].msgs = log[i].msgs]_vars

\* C23 witness: one cycle was classified, a second qubit came within the
\* dead time, and the detector holds nothing and waits for nothing.
C23_Witness ==
    /\ Len(log) = 1
    /\ arrived = 2
    /\ log[1].count = 1
    /\ now > last.at
    /\ now < last.at + detector.dead_time
    /\ qubits_per_port = NoQubits
    /\ ~is_triggered

(***************************************************************************)
(* Properties of the Bell-measurement side under fair scheduling (SpecBell).*)
(***************************************************************************)
\* C21: the Bell-measurement round repeats.  Whatever number of SUCCESS
\* signals Alice has emitted, as long as the source has a pair left to emit
\* she emits one more: no state is reached from which no round completes.
C21_RoundsRepeat ==
    \A k \in 0..(MaxPairs - 1) :
        (a_stats.success = k /\ pairs < MaxPairs) ~> (a_stats.success > k)

\* C21 witness: Alice emitted a second SUCCESS after the first, although a
\* qubit that came during a measurement was heard by nobody.
C21_Witness ==
    /\ a_stats.success = 2
    /\ a_stats.unheard = 1
    /\ pairs = MaxPairs
    /\ a_pc = "wait"
    /\ a_program = "init"

(***************************************************************************)
(* Properties of the timed teleportation run (SpecTimed).                  *)
(***************************************************************************)
\* the conditions of Alice's wait whose event is due at the present time
AliceDue ==
    [init  |-> a_program = "init" /\ schedule.a_done = schedule.time,
     qubit |-> qchannel.a /\ schedule.qubit = schedule.time]

\* the conditions of Bob's wait whose event is due at the present time
BobDue ==
    [bits  |-> cchannel # <<>> /\ MessageDue = schedule.time,
     qubit |-> qchannel.b /\ schedule.qubit = schedule.time]

\* the conditions this step recorded on each side
AliceRecorded ==
    (a_stats'.init_wakes - a_stats.init_wakes)
        + (a_stats'.qubit_wakes - a_stats.qubit_wakes)

BobRecorded ==
    (b_stats'.reads - b_stats.reads)
        + (b_stats'.qubit_wakes - b_stats.qubit_wakes)

\* C24 as stated: when both conditions of a wait are due at the same
\* timestamp, the wake-up records both, so that the round starts with it.
C24_WakeRecordsBoth ==
    [][/\ (a_pc = "wait" /\ AliceDue.init /\ AliceDue.qubit /\ AliceRecorded > 0)
             => a_pc' = "measure"
       /\ (b_pc = "wait" /\ BobDue.bits /\ BobDue.qubit /\ BobRecorded > 0)
             => b_stats'.rendezvous = b_stats.rendezvous + 1]_vars

\* C24 amended: a wake-up records one condition.  When both are due at the
\* same timestamp the wake-up records one of them; the round starts with
\* it only if the other was recorded before, otherwise the protocol is at
\* its wait again with the other still due at that timestamp.  A protocol
\* at its wait with one condition recorded and the other due starts the
\* round with its next wake-up, at the same timestamp; and the clock moves
\* on only when nothing is due.  So the round starts at the timestamp of
\* the coincidence, with two wake-ups and without a further arrival.
C24_OnePerWakeUp ==
    [][/\ (a_pc = "wait" /\ AliceDue.init /\ AliceDue.qubit /\ AliceRecorded > 0)
             => /\ AliceRecorded = 1
                /\ schedule'.time = schedule.time
                /\ \/ /\ a_pc' = "measure"
                      /\ qubit_initialised \/ a_entanglement_ready
                   \/ /\ a_pc' = "wait"
                      /\ AliceDue.init' # AliceDue.qubit'
       /\ (/\ a_pc = "wait" /\ AliceRecorded > 0
           /\ \/ qubit_initialised /\ AliceDue.qubit
              \/ a_entanglement_ready /\ AliceDue.init /\ ~AliceDue.qubit)
             => /\ a_pc' = "measure"
                /\ schedule'.time = schedule.time
       /\ (b_pc = "wait" /\ BobDue.bits /\ BobDue.qubit /\ BobRecorded > 0)
             => /\ BobRecorded = 1
                /\ schedule'.time = schedule.time
                /\ \/ /\ b_stats'.rendezvous = b_stats.rendezvous + 1
                      /\ meas_results # None \/ b_entanglement_ready
                   \/ /\ b_pc' = "wait"
                      /\ b_stats'.rendezvous = b_stats.rendezvous
                      /\ BobDue.bits' # BobDue.qubit'
       /\ (/\ b_pc = "wait" /\ BobRecorded > 0
           /\ \/ meas_results # None /\ BobDue.qubit /\ ~BobDue.bits
              \/ b_entanglement_ready /\ BobDue.bits /\ ~BobDue.qubit)
             => /\ b_stats'.rendezvous = b_stats.rendezvous + 1
                /\ schedule'.time = schedule.time
       /\ schedule'.time # schedule.time
             => /\ ~AliceDue.init /\ ~AliceDue.qubit
                /\ ~BobDue.bits /\ ~BobDue.qubit]_vars

\* C24 witness: Alice's first initialisation and her first qubit fell on
\* the same timestamp; two wake-ups later, still at that timestamp, the
\* Bell measurement is executing.
C24_Witness ==
    /\ schedule.time = InitStateProgram
    /\ schedule.time = QubitDelay(schedule.distance)
    /\ a_stats.init_wakes = 1
    /\ a_stats.qubit_wakes = 1
    /\ a_stats.measures = 1
    /\ a_pc = "measure"
    /\ a_program = "measure"

\* C25: no arrival is lost while a protocol is busy.  A qubit that came
\* while Alice awaited her Bell measurement, and a qubit or a message that
\* came while Bob awaited a correction, is recorded in the flags of the
\* round that follows: the protocol, back at its wait, has the flag set.
C25_NoArrivalLost ==
    /\ (a_pc = "wait" /\ a_stats.missed > 0) => a_entanglement_ready
    /\ (b_pc = "wait" /\ b_stats.missed_qubits > 0) => b_entanglement_ready
    /\ (b_pc = "wait" /\ b_stats.missed_messages > 0) => meas_results # None

\* C26: the k-th SUCCESS of the correction side belongs to the k-th Bell
\* measurement: Bob's k-th round used the (m1, m2) that Alice's k-th
\* measurement produced and issued the corrections of those bits, and Bob
\* has emitted no more SUCCESS signals than Alice has sent messages.
C26_RoundCorrespondence ==
    /\ Len(b_rounds) <= Len(a_stats.results)
    /\ \A k \in 1..Len(b_rounds) :
          /\ b_rounds[k].bits = a_stats.results[k]
          /\ b_rounds[k].corrections = ExpectedCorrections(a_stats.results[k])
    /\ b_stats.success = Len(b_rounds)
    /\ a_stats.sent = Len(a_stats.results)
    /\ b_stats.success <= a_stats.sent

\* C26 witness: two rounds on each side with different results, Bob's
\* second SUCCESS after the corrections of Alice's second measurement.
C26_Witness ==
    /\ Len(b_rounds) = 2
    /\ a_stats.results[1] = <<0, 1>>
    /\ a_stats.results[2] = <<1, 0>>
    /\ b_rounds[2].corrections = <<"Z">>
    /\ b_stats.unheard > 0
====
